---- MODULE Spec2Model ----
(***************************************************************************)
(* Alert ingestion and classification pipeline of the motorcycle tracker   *)
(* alert system.                                                           *)
(*                                                                         *)
(* Two parts are modelled.                                                 *)
(*  - The ingestion side: the tables tracker_alerts, sync_checkpoints and  *)
(*    email_sync_runs (src/backend/init_database.sql) and the progressive  *)
(*    synchronisation pass run_batch that fills them.  backend/server.py   *)
(*    is not part of the sources, so the pass is modelled from sections    *)
(*    4.2-4.4, 6 and 7 of the specification; the tables and their          *)
(*    constraints are modelled from the SQL.                               *)
(*  - The presentation side: groupAlertsByDevice of                        *)
(*    src/frontend/src/App.js (grouping, severity, crash notifications and *)
(*    the sort), with the handlers that call it.                           *)
(***************************************************************************)
EXTENDS Integers, Sequences, FiniteSets, Bags, TLC

VARIABLES
    tracker_alerts,    \* table tracker_alerts: a set of rows
    sync_checkpoints,  \* table sync_checkpoints: user_id -> last_email_id (0: no row yet)
    email_sync_runs,   \* table email_sync_runs: per caller slot, the row of its latest run
    pass,              \* the run_batch invocations: one record per caller slot
    hist,              \* history, per account: has a call aborted, has a persist failed
    serverAlerts,      \* the alert list the /alerts/list endpoint answers with
    alerts,            \* React state `alerts`
    groupedAlerts,     \* React state `groupedAlerts`
    crashAlerts,       \* React state `crashAlerts`
    sortBy,            \* React state `sortBy`
    upserts,           \* concurrent upsert calls: one transaction per call
    requests,          \* requests sent through the axios instance `api`
    parser,            \* FieldParser: the body handed to parse and the fields returned
    selectedCategory,  \* React state `selectedCategory`
    page,              \* React state `page`
    hasMore,           \* React state `hasMore`
    loadingMore,       \* React state `loadingMore`
    inflight,          \* the calls of the dashboard that await their answer (a bag)
    timer,             \* what the callback of the auto-refresh interval has captured
    selectedAlert,     \* React state `selectedAlert` while the modal is shown: the id of
                       \* the latest alert of its group (0: no modal)
    pageSize,           \* React state `limit`, the page size asked for
    events             \* how many times the user or the interval has acted

syncVars == <<tracker_alerts, sync_checkpoints, email_sync_runs, pass, hist>>
uiVars == <<serverAlerts, alerts, groupedAlerts, crashAlerts, sortBy>>
raceVars == <<selectedCategory, page, hasMore, loadingMore, inflight, timer, selectedAlert, pageSize,
             events>>
moreVars == <<parser, selectedCategory, page, hasMore, loadingMore, inflight, timer, selectedAlert,
              pageSize,
              events>>
extVars == <<upserts, requests, parser, selectedCategory, page, hasMore, loadingMore,
             inflight, timer, selectedAlert, pageSize, events>>
vars == <<tracker_alerts, sync_checkpoints, email_sync_runs, pass, hist,
          serverAlerts, alerts, groupedAlerts, crashAlerts, sortBy, upserts, requests,
          parser, selectedCategory, page, hasMore, loadingMore, inflight, timer, selectedAlert,
          pageSize,
          events>>

(***************************************************************************)
(* Bounds of the model.                                                    *)
(***************************************************************************)
\* Message ids of a mailbox are 1..MaxMsgId (IMAP uids, ascending).
MaxMsgId == 3
\* Number of already delivered messages MessageSource hands out again in one answer.
MaxRedelivered == 1
\* Longest alert list the listing endpoint returns.
MaxAlerts == 2
\* Most times one request is sent (a guard on the re-send of a request).
MaxSends == 3
\* Longest alert list of the lists used to examine the sort.
MaxRollupAlerts == 3
\* /alerts/list requests in flight at one time.
MaxInflight == 2
\* Alerts of the account in the dashboard with pagination.
MaxRaceAlerts == 3
\* Alerts per page (the dashboard asks for 20).
PageLimit == 2
\* Pages the user asks for with "load more".
MaxPage == 3
\* Clicks of the user and ticks of the interval in one session of the dashboard.
MaxEvents == 2

Accounts == {"A", "B"}
Passes == {"progressive"}
\* The callers whose passes may overlap: the progressive endpoint and the
\* periodic background synchronisation.
AllPasses == {"progressive", "background"}
MsgIds == 1..MaxMsgId
\* batch_limit values a caller passes (10 is the progressive endpoint's batch size).
BatchLimits == {1, 2, 10}

\* The messages MessageSource holds for an account: a fixed set of pending messages.
\* Account B holds one message, with an id that account A uses too.
Mailbox(a) == IF a = "A" THEN MsgIds ELSE {1}

(***************************************************************************)
(* Helpers.                                                                *)
(***************************************************************************)
Min(x, y) == IF x <= y THEN x ELSE y

SetMin(S) == CHOOSE x \in S : \A y \in S : x <= y

RECURSIVE SortedSeq(_)
\* The ids of S in ascending order: the order in which a mailbox lists its messages.
SortedSeq(S) == IF S = {} THEN <<>> ELSE <<SetMin(S)>> \o SortedSeq(S \ {SetMin(S)})

(***************************************************************************)
(* MessageSource and FieldParser, at their boundary.                       *)
(***************************************************************************)
\* The fields FieldParser extracts from the body of message m (a fixed body per message).
MessageFields(a, m) ==
    [alert_type |-> IF m % 2 = 1 THEN "Over-turn" ELSE "Heavy Impact",
     tracker_name |-> IF m <= 2 THEN "Bike1" ELSE "Bike2"]

FetchSince_SkipsOne(a, marker, limit, redelivered) ==
    LET answer == SortedSeq({m \in Mailbox(a) : m > marker + 1} \cup redelivered)
    IN  [messages |-> SubSeq(answer, 1, Min(limit, Len(answer))),
         total_remaining |-> Len(answer)]

FetchSince_NoLimit(a, marker, limit, redelivered) ==
    LET answer == SortedSeq({m \in Mailbox(a) : m > marker} \cup redelivered)
    IN  [messages |-> answer, total_remaining |-> Len(answer)]

\* fetch_since(account, marker, limit): the messages after the marker plus the
\* already delivered messages `redelivered` the source hands out again
\* (at-least-once delivery), in mailbox order, cut to `limit`; with the number of
\* messages of the whole answer.
FetchSince(a, marker, limit, redelivered) ==
    LET answer == SortedSeq({m \in Mailbox(a) : m > marker} \cup redelivered)
    IN  [messages |-> SubSeq(answer, 1, Min(limit, Len(answer))),
         total_remaining |-> Len(answer)]

(***************************************************************************)
(* AlertPersister: table tracker_alerts.                                   *)
(***************************************************************************)
RecordIds(table, a) == {r.email_id : r \in {x \in table : x.user_id = a}}

HasRecord(table, a, m) == \E r \in table : r.user_id = a /\ r.email_id = m

UniqueConflict_None(table, a, m) == FALSE

UniqueConflict_EmailIdAlone(table, a, m) == \E r \in table : r.email_id = m

\* UNIQUE(user_id, email_id): an insert collides when a row has the same pair.
UniqueConflict(table, a, m) == \E r \in table : r.user_id = a /\ r.email_id = m

\* The row an INSERT creates: parsed fields plus the column defaults.
\* id stands for the SERIAL key, which only tells rows of equal content apart: it
\* numbers the rows that carry the same (user_id, email_id).
NewRow(table, a, fields, m) ==
    [id |-> Cardinality({r \in table : r.user_id = a /\ r.email_id = m}) + 1,
     user_id |-> a,
     email_id |-> m,
     alert_type |-> fields.alert_type,
     tracker_name |-> fields.tracker_name,
     status |-> "New",
     acknowledged |-> FALSE,
     notes |-> "NULL",
     assigned_to |-> "NULL",
     favorite |-> FALSE]

Upsert_Overwrite(table, a, fields, m) ==
    LET others == {r \in table : ~(r.user_id = a /\ r.email_id = m)}
    IN  IF UniqueConflict(table, a, m)
        THEN [table |-> others \cup {NewRow(others, a, fields, m)}, result |-> "already_exists"]
        ELSE [table |-> table \cup {NewRow(table, a, fields, m)}, result |-> "inserted"]

\* INSERT ... ON CONFLICT (user_id, email_id) DO NOTHING
Upsert(table, a, fields, m) ==
    IF UniqueConflict(table, a, m)
    THEN [table |-> table, result |-> "already_exists"]
    ELSE [table |-> table \cup {NewRow(table, a, fields, m)}, result |-> "inserted"]

(***************************************************************************)
(* CheckpointStore: table sync_checkpoints.                                *)
(***************************************************************************)
\* get(account): the marker, 0 when the account has no checkpoint row.
GetCheckpoint(cp, a) == cp[a]

\* advance(account, new_marker):
\* INSERT ... ON CONFLICT (user_id) DO UPDATE SET last_email_id = EXCLUDED.last_email_id
Advance(cp, a, new_marker) == [cp EXCEPT ![a] = new_marker]

(***************************************************************************)
(* SyncOrchestrator: run_batch(account, batch_limit), step by step.        *)
(***************************************************************************)
NoResp == [total |-> 0, processed |-> 0, remaining |-> 0, completed |-> FALSE, valid |-> FALSE]

IdleRec ==
    [pc |-> "idle", account |-> "none", limit |-> 0, marker |-> 0, batch |-> <<>>,
     idx |-> 0, total |-> 0, errors |-> {}, new |-> 0, last |-> "none",
     before |-> {}, advanced |-> FALSE, resp |-> NoResp]

Resting == {"idle", "done", "aborted"}

\* Progress object of a call: {total, processed, remaining, completed}.
Progress(total, processed) ==
    [total |-> total, processed |-> processed, remaining |-> total - processed,
     completed |-> (total - processed = 0), valid |-> TRUE]

\* The answers the caller of a call that aborted may get.  Section 7 promises a
\* progress object and gives none of its values; the caller is written for a
\* request that is rejected as well (catch, error.response.data.detail).  Any
\* progress object whose counters add up, or none.
AbortResponses ==
    {NoResp} \cup
    {[total |-> t, processed |-> n, remaining |-> t - n, completed |-> c, valid |-> TRUE] :
         <<t, n, c>> \in {x \in (0..MaxMsgId) \X (0..MaxMsgId) \X BOOLEAN : x[2] <= x[1]}}

\* Step 4: the checkpoint is advanced when the batch was attempted to its end and
\* at least one of its messages succeeded (section 7).
ShouldAdvance(batch, errors) ==
    /\ Len(batch) > 0
    /\ \E i \in 1..Len(batch) : batch[i] \notin errors

CheckpointAfterBatch_First(cp, a, batch, errors) ==
    IF ShouldAdvance(batch, errors) THEN Advance(cp, a, batch[1]) ELSE cp

\* Step 4: the new marker is the id of the last message of the batch.
CheckpointAfterBatch(cp, a, batch, errors) ==
    IF ShouldAdvance(batch, errors) THEN Advance(cp, a, batch[Len(batch)]) ELSE cp

CheckpointAfterAbort_Partial(cp, a, batch, idx) ==
    IF idx > 0 THEN Advance(cp, a, batch[idx]) ELSE cp

\* A transport failure leaves the checkpoint as it is.
CheckpointAfterAbort(cp, a, batch, idx) == cp

RecordFailure_Dropped(errors, m) == errors

\* A per-message failure is recorded for the error summary of the SyncRun.
RecordFailure(errors, m) == errors \cup {m}

NextIndexAfterFailure_Stop(batch, idx) == Len(batch)

\* After a per-message failure the batch goes on with the next message.
NextIndexAfterFailure(batch, idx) == idx + 1

NoRun == [user_id |-> "none", status |-> "none", completed_at |-> "NULL", emails_read |-> 0,
          emails_new |-> 0, error_summary |-> {}]

\* INSERT INTO email_sync_runs: completed_at and status are NOT NULL, a row
\* without them is rejected and the run has no row.
StoreRun(row) ==
    IF row.completed_at = "NULL" \/ row.status = "NULL" THEN NoRun ELSE row

\* Step 1: a caller invokes run_batch; the SyncRun is created and the marker read.
\* Calls for one account follow each other: a call starts when none is under way.
BeginRun(p, a, lim) ==
    /\ email_sync_runs' = [email_sync_runs EXCEPT ![p] =
           StoreRun([user_id |-> a, status |-> "running", completed_at |-> "NULL",
                     emails_read |-> 0, emails_new |-> 0, error_summary |-> {}])]
    /\ pass' = [pass EXCEPT ![p] =
           [IdleRec EXCEPT !.pc = "fetch", !.account = a, !.limit = lim,
                           !.marker = GetCheckpoint(sync_checkpoints, a),
                           !.before = RecordIds(tracker_alerts, a)]]
    /\ UNCHANGED <<tracker_alerts, sync_checkpoints, hist>>

BeginPass(p, a, lim) ==
    /\ BeginRun(p, a, lim)
    /\ UNCHANGED <<uiVars, extVars>>

StartBatch(p, a, lim) ==
    /\ pass[p].pc \in Resting
    /\ \A q \in Passes \ {p} : pass[q].pc \in Resting \/ pass[q].account # a
    /\ BeginPass(p, a, lim)

\* Step 2: MessageSource answers.
Fetch(p, redelivered) ==
    /\ pass[p].pc = "fetch"
    /\ redelivered \subseteq {m \in Mailbox(pass[p].account) : m <= pass[p].marker}
    /\ Cardinality(redelivered) <= MaxRedelivered
    /\ LET f == FetchSince(pass[p].account, pass[p].marker, pass[p].limit, redelivered)
       IN  pass' = [pass EXCEPT ![p].pc = "process", ![p].batch = f.messages,
                                ![p].total = f.total_remaining]
    /\ UNCHANGED <<tracker_alerts, sync_checkpoints, email_sync_runs, hist, uiVars, extVars>>

\* MessageSource fails: the call aborts, the SyncRun is finalized as error.
TransportFail(p) ==
    /\ \/ pass[p].pc = "fetch"
       \/ pass[p].pc = "process" /\ pass[p].idx < Len(pass[p].batch)
    /\ sync_checkpoints' = CheckpointAfterAbort(sync_checkpoints, pass[p].account,
                                                pass[p].batch, pass[p].idx)
    /\ email_sync_runs' = [email_sync_runs EXCEPT ![p] =
           StoreRun([user_id |-> pass[p].account, status |-> "error", completed_at |-> "set",
                     emails_read |-> pass[p].idx, emails_new |-> pass[p].new,
                     error_summary |-> pass[p].errors])]
    /\ \E answer \in AbortResponses : pass' = [pass EXCEPT ![p].pc = "aborted", ![p].resp = answer]
    /\ hist' = [hist EXCEPT ![pass[p].account].aborted = TRUE]
    /\ UNCHANGED <<tracker_alerts, uiVars, extVars>>

\* Step 3, one message: parse, then upsert in its own transaction.
ProcessMessage(p) ==
    /\ pass[p].pc = "process"
    /\ pass[p].idx < Len(pass[p].batch)
    /\ LET a == pass[p].account
           m == pass[p].batch[pass[p].idx + 1]
           u == Upsert(tracker_alerts, a, MessageFields(a, m), m)
       IN  /\ tracker_alerts' = u.table
           /\ pass' = [pass EXCEPT ![p].idx = @ + 1, ![p].last = u.result,
                                   ![p].new = IF u.result = "inserted" THEN @ + 1 ELSE @]
    /\ UNCHANGED <<sync_checkpoints, email_sync_runs, hist, uiVars, extVars>>

\* Step 3, one message whose persistence fails: recorded, and the batch continues.
PersistFail(p) ==
    /\ pass[p].pc = "process"
    /\ pass[p].idx < Len(pass[p].batch)
    /\ LET m == pass[p].batch[pass[p].idx + 1]
       IN  pass' = [pass EXCEPT ![p].idx = NextIndexAfterFailure(pass[p].batch, pass[p].idx),
                                ![p].last = "failed",
                                ![p].errors = RecordFailure(@, m)]
    /\ hist' = [hist EXCEPT ![pass[p].account].failed = TRUE]
    /\ UNCHANGED <<tracker_alerts, sync_checkpoints, email_sync_runs, uiVars, extVars>>

\* Steps 4 and 5: advance the checkpoint, finalize the SyncRun, return progress.
FinishBatch(p) ==
    /\ pass[p].pc = "process"
    /\ pass[p].idx = Len(pass[p].batch)
    /\ sync_checkpoints' = CheckpointAfterBatch(sync_checkpoints, pass[p].account,
                                                pass[p].batch, pass[p].errors)
    /\ email_sync_runs' = [email_sync_runs EXCEPT ![p] =
           StoreRun([user_id |-> pass[p].account, status |-> "success", completed_at |-> "set",
                     emails_read |-> Len(pass[p].batch), emails_new |-> pass[p].new,
                     error_summary |-> pass[p].errors])]
    /\ pass' = [pass EXCEPT ![p].pc = "done",
                            ![p].advanced = ShouldAdvance(pass[p].batch, pass[p].errors),
                            ![p].resp = Progress(pass[p].total, Len(pass[p].batch))]
    /\ UNCHANGED <<tracker_alerts, hist, uiVars, extVars>>

InitSync ==
    /\ tracker_alerts = {}
    /\ sync_checkpoints = [a \in Accounts |-> 0]
    /\ email_sync_runs = [p \in AllPasses |-> NoRun]
    /\ pass = [p \in AllPasses |-> IdleRec]
    /\ hist = [a \in Accounts |-> [aborted |-> FALSE, failed |-> FALSE]]

InitUI0 ==
    /\ serverAlerts = <<>>
    /\ alerts = <<>>
    /\ groupedAlerts = <<>>
    /\ crashAlerts = <<>>
    /\ sortBy = "priority"

Workers == {"w1", "w2", "w3"}
Requests == {"r1", "r2"}

IdleUpsert == [pc |-> "idle", account |-> "none", m |-> 0, result |-> "none"]
IdleRequest == [pc |-> "idle", url |-> "none", retry |-> FALSE, sent |-> 0, refreshes |-> 0,
                status |-> 0]

\* A coordinate is kept as the characters of its value; this is the absent one.
NoCoordinate == <<"absent">>
\* A body without a "Latitude, Longitude:" line.
NoCoordLine == [present |-> FALSE, lat |-> <<>>, lon |-> <<>>]
NoFields == [alert_type |-> "absent", tracker_name |-> "absent", latitude |-> NoCoordinate,
             longitude |-> NoCoordinate]
NoBody == [type |-> "missing", name |-> "missing", coord |-> NoCoordLine]
NoParse == [pc |-> "idle", body |-> NoBody, fields |-> NoFields]
NoTimer == [category |-> "All", sortBy |-> "priority"]
\* useState(20): the page size of the dashboard.
DefaultLimit == 20
\* A call of the dashboard that awaits its answer.  The kinds of call: load
\* (loadAlerts, append false), reload (the same, called by handleRefreshAlerts or
\* handleSyncTodayEmails), quiet (loadAlertsQuiet), more (loadAlerts, append true);
\* post and sync (handleRefreshAlerts or handleSyncTodayEmails awaiting the
\* synchronisation: the request on its way, and being served)
\* and acknowledge, delete, clear (the handlers awaiting their own request before
\* they call loadAlerts()).  A call holds what its render gave it: category, page,
\* sortBy, alerts.  The calls that await are a bag: nothing orders them.
Req(kind, category, pageNum, by, list, id) ==
    [kind |-> kind, category |-> category, pageNum |-> pageNum, sortBy |-> by,
     alerts |-> list, alertId |-> id]
\* loadAlerts() of the mount effect and loadAlerts(null, 1, false) of the effect
\* on [selectedCategory], which runs at mount too.
MountLoad == Req("load", "All", 1, "priority", <<>>, 0)
One(req) == SetToBag({req})
\* The dashboard mounted: its two requests sent.
Mounted == One(MountLoad) (+) One(MountLoad)

InitCalls ==
    /\ upserts = [w \in Workers |-> IdleUpsert]
    /\ requests = [r \in Requests |-> IdleRequest]

\* The dashboard as mounted: category All, page 1, the interval installed.
InitRace0 ==
    /\ selectedCategory = "All"
    /\ page = 1
    /\ hasMore = FALSE
    /\ loadingMore = FALSE
    /\ inflight = EmptyBag
    /\ timer = NoTimer
    /\ selectedAlert = 0
    /\ pageSize = DefaultLimit
    /\ events = 0

InitExt ==
    /\ InitCalls
    /\ parser = NoParse
    /\ InitRace0

Init == InitSync /\ InitUI0 /\ InitExt

Next ==
    \/ \E p \in Passes, a \in Accounts, lim \in BatchLimits : StartBatch(p, a, lim)
    \/ \E p \in Passes, R \in SUBSET MsgIds : Fetch(p, R)
    \/ \E p \in Passes : TransportFail(p)
    \/ \E p \in Passes : ProcessMessage(p)
    \/ \E p \in Passes : PersistFail(p)
    \/ \E p \in Passes : FinishBatch(p)

Spec == Init /\ [][Next]_vars

\* The account whose user is logged in to the dashboard.
LoopAccount == "A"

\* Two callers of run_batch for one account: the periodic background
\* synchronisation and the progressive endpoint.  Nothing makes one wait for the
\* other: a pass starts whenever its caller is not inside a pass of its own.
StartOverlapping(p, lim) ==
    /\ pass[p].pc \in Resting
    /\ BeginPass(p, LoopAccount, lim)

\* The source answers these passes without redelivering anything.
NextOverlap ==
    \/ \E p \in AllPasses, lim \in BatchLimits : StartOverlapping(p, lim)
    \/ \E p \in AllPasses : Fetch(p, {})
    \/ \E p \in AllPasses : ProcessMessage(p)
    \/ \E p \in AllPasses : FinishBatch(p)

SpecOverlap == Init /\ [][NextOverlap]_vars

(***************************************************************************)
(* Concurrent upserts: the messages of a batch are processed at the same   *)
(* time, each upsert in a transaction on a connection of its own.          *)
(***************************************************************************)
\* The rows written by transactions that have not committed yet.
InFlight(ups) == {[account |-> ups[w].account, m |-> ups[w].m] : w \in {v \in Workers : ups[v].pc = "written"}}

IndexBlocked_Never(ups, a, m) == FALSE

\* The unique index makes an insert wait while another transaction holds an
\* uncommitted row of the same (user_id, email_id).
IndexBlocked(ups, a, m) == [account |-> a, m |-> m] \in InFlight(ups)

\* upsert(account, fields, m) is called.
BeginUpsert(w, a, m) ==
    /\ upserts[w].pc = "idle"
    /\ upserts' = [upserts EXCEPT ![w] = [pc |-> "insert", account |-> a, m |-> m,
                                          result |-> "none"]]
    /\ UNCHANGED <<syncVars, uiVars, requests, moreVars>>

\* INSERT ... ON CONFLICT DO NOTHING reaches the index: a committed row of the key
\* makes it a no-op, otherwise the row is written, uncommitted.
TryInsert(w) ==
    /\ upserts[w].pc = "insert"
    /\ ~IndexBlocked(upserts, upserts[w].account, upserts[w].m)
    /\ IF UniqueConflict(tracker_alerts, upserts[w].account, upserts[w].m)
       THEN upserts' = [upserts EXCEPT ![w].pc = "returned", ![w].result = "already_exists"]
       ELSE upserts' = [upserts EXCEPT ![w].pc = "written"]
    /\ UNCHANGED <<syncVars, uiVars, requests, moreVars>>

\* The transaction commits: the row is in the table, the call returns inserted.
CommitUpsert(w) ==
    /\ upserts[w].pc = "written"
    /\ tracker_alerts' = tracker_alerts \cup
           {NewRow(tracker_alerts, upserts[w].account,
                   MessageFields(upserts[w].account, upserts[w].m), upserts[w].m)}
    /\ upserts' = [upserts EXCEPT ![w].pc = "returned", ![w].result = "inserted"]
    /\ UNCHANGED <<sync_checkpoints, email_sync_runs, pass, hist, uiVars, requests, moreVars>>

NextConc ==
    \/ \E w \in Workers, a \in Accounts, m \in MsgIds : BeginUpsert(w, a, m)
    \/ \E w \in Workers : TryInsert(w)
    \/ \E w \in Workers : CommitUpsert(w)

SpecConc == Init /\ [][NextConc]_vars

(***************************************************************************)
(* The response interceptor of the axios instance `api` (App.js).          *)
(***************************************************************************)
Urls == {"/alerts/list", "/auth/me", "/auth/refresh"}
\* HTTP status of a response; 0 is an error without a response.
Statuses == {200, 401, 500, 0}

\* originalRequest.url?.includes('/auth/refresh')
IsRefreshUrl(url) == url = "/auth/refresh"

ShouldRefresh_IgnoresRetry(status, retry, url) == status = 401 /\ ~IsRefreshUrl(url)

\* error.response?.status === 401 && !originalRequest._retry && !url.includes(..)
ShouldRefresh(status, retry, url) == status = 401 /\ ~retry /\ ~IsRefreshUrl(url)

\* A caller sends a request through api.
SendRequest(r, url) ==
    /\ requests[r].pc = "idle"
    /\ requests' = [requests EXCEPT ![r] = [IdleRequest EXCEPT !.pc = "sent", !.url = url,
                                                               !.sent = 1]]
    /\ UNCHANGED <<syncVars, uiVars, upserts, moreVars>>

\* The response arrives: a success resolves; an error runs the interceptor, which
\* marks the request and calls /auth/refresh, or rejects.
Respond(r, status) ==
    /\ requests[r].pc = "sent"
    /\ requests' = [requests EXCEPT ![r] =
           IF status = 200 THEN [@ EXCEPT !.pc = "resolved", !.status = status]
           ELSE IF ShouldRefresh(status, @.retry, @.url)
                THEN [@ EXCEPT !.pc = "refreshing", !.retry = TRUE, !.status = status,
                               !.refreshes = @ + 1]
                ELSE [@ EXCEPT !.pc = "rejected", !.status = status]]
    /\ UNCHANGED <<syncVars, uiVars, upserts, moreVars>>

\* axios.post(/auth/refresh) ends: on success the request is sent again through
\* api, on failure the refresh error is rejected to the caller.
RefreshRespond(r, status) ==
    /\ requests[r].pc = "refreshing"
    /\ status = 200 => requests[r].sent < MaxSends
    /\ requests' = [requests EXCEPT ![r] =
           IF status = 200 THEN [@ EXCEPT !.pc = "sent", !.sent = @ + 1]
           ELSE [@ EXCEPT !.pc = "rejected", !.status = status]]
    /\ UNCHANGED <<syncVars, uiVars, upserts, moreVars>>

NextAuth ==
    \/ \E r \in Requests, url \in Urls : SendRequest(r, url)
    \/ \E r \in Requests, st \in Statuses : Respond(r, st)
    \/ \E r \in Requests, st \in Statuses : RefreshRespond(r, st)

SpecAuth == Init /\ [][NextAuth]_vars

(***************************************************************************)
(* Presentation: groupAlertsByDevice of App.js.                            *)
(***************************************************************************)
\* tracker_name values of listed alerts; "" is an absent or empty name.
TrackerNames == {"", "Bike1"}
\* Of the fourteen alert types the four that a version of the severity rule names,
\* and Low Battery for the ten that none names: Out Of Country, Motion and the
\* rest pass through groupAlertsByDevice as Low Battery does.
AlertTypes == {"Over-turn", "Heavy Impact", "Light Sensor", "No Communication", "Low Battery"}
\* alert_time values: -1 is a string no Date parses (NaN); 0 is an absent time,
\* null, which new Date takes as the epoch; 1 and 2 are dates.
AlertTimes == {-1, 0, 1, 2}
SortOptions == {"priority", "newest", "oldest", "device", "alerts"}

\* Alerts of one alert_time, and alerts of any: the second to examine latestAlert.
AlertFields == [tracker_name : TrackerNames, alert_type : AlertTypes, alert_time : {1}]
LatestFields == [tracker_name : TrackerNames, alert_type : AlertTypes, alert_time : AlertTimes]

\* An answer of the endpoint: each alert carries its row id.
WithIds(f) ==
    [i \in DOMAIN f |-> [id |-> i, tracker_name |-> f[i].tracker_name,
                         alert_type |-> f[i].alert_type, alert_time |-> f[i].alert_time]]

DeviceOf_NoFallback(alert) == alert.tracker_name

\* alert.tracker_name || "Unknown"
DeviceOf(alert) == IF alert.tracker_name = "" THEN "Unknown" ELSE alert.tracker_name

\* new Date(x) > new Date(y): false when one of the two is an invalid date.
DateGreater(x, y) == x # -1 /\ y # -1 /\ x > y

NewGroup_CountOne(alert) ==
    [device |-> DeviceOf(alert), alerts |-> <<>>, count |-> 1, latestAlert |-> alert,
     severity |-> "normal"]

\* The entry created for a device met for the first time.
NewGroup(alert) ==
    [device |-> DeviceOf(alert), alerts |-> <<>>, count |-> 0, latestAlert |-> alert,
     severity |-> "normal"]

\* alerts.push(alert); count++; latestAlert replaced by a more recent alert.
PushAlert(group, alert) ==
    [group EXCEPT !.alerts = Append(@, alert),
                  !.count = @ + 1,
                  !.latestAlert = IF DateGreater(alert.alert_time, @.alert_time)
                                  THEN alert ELSE @]

\* One iteration of alertList.forEach: groups is Object.values(grouped), in the
\* order in which the devices were first met.
AddAlert(groups, alert) ==
    IF \E k \in 1..Len(groups) : groups[k].device = DeviceOf(alert)
    THEN [k \in 1..Len(groups) |->
             IF groups[k].device = DeviceOf(alert) THEN PushAlert(groups[k], alert)
             ELSE groups[k]]
    ELSE Append(groups, PushAlert(NewGroup(alert), alert))

RECURSIVE GroupFrom(_, _, _)
GroupFrom(groups, alertList, i) ==
    IF i > Len(alertList) THEN groups
    ELSE GroupFrom(AddAlert(groups, alertList[i]), alertList, i + 1)

CountType(group, t) == Cardinality({i \in 1..Len(group.alerts) : group.alerts[i].alert_type = t})

\* The rule of an earlier version: "heavy-impact", shown as "Crash detect", for a
\* Light Sensor with an Over-turn.
Severity_EarlierVariant(group) ==
    LET types == {group.alerts[i].alert_type : i \in 1..Len(group.alerts)}
    IN  IF "Light Sensor" \in types /\ "Over-turn" \in types THEN "crash-detected"
        ELSE IF types \cap {"Over-turn", "Heavy Impact", "No Communication"} # {} THEN "high"
        ELSE "normal"

\* isCrashDetect, then high for an Over-turn or a Heavy Impact, else normal.
Severity(group) ==
    LET overTurnCount == CountType(group, "Over-turn")
        heavyImpactCount == CountType(group, "Heavy Impact")
    IN  IF overTurnCount >= 1 /\ heavyImpactCount >= 1 THEN "crash-detected"
        ELSE IF overTurnCount > 0 \/ heavyImpactCount > 0 THEN "high"
        ELSE "normal"

Classify(groups) == [k \in 1..Len(groups) |-> [groups[k] EXCEPT !.severity = Severity(groups[k])]]

\* a.device.localeCompare(b.device) orders the names alphabetically.
NameRank(d) == IF d = "Bike1" THEN 1 ELSE IF d = "Bike2" THEN 2 ELSE 3

\* new Date(x) - new Date(y); NaN, which sort takes as 0, when a date is invalid.
DateDiff(x, y) == IF x = -1 \/ y = -1 THEN 0 ELSE x - y

Top(g) == g.severity = "crash-detected" \/ g.severity = "heavy-impact"

Compare_CountOnly(a, b, by) ==
    CASE by = "newest" -> DateDiff(b.latestAlert.alert_time, a.latestAlert.alert_time)
      [] by = "oldest" -> DateDiff(a.latestAlert.alert_time, b.latestAlert.alert_time)
      [] by = "device" -> NameRank(a.device) - NameRank(b.device)
      [] OTHER -> b.count - a.count

\* The comparator handed to sort, for the value of sortBy.
Compare(a, b, by) ==
    CASE by = "priority" ->
            IF Top(a) /\ ~Top(b) THEN -1
            ELSE IF Top(b) /\ ~Top(a) THEN 1
            ELSE IF a.severity = "high" /\ b.severity = "normal" THEN -1
            ELSE IF b.severity = "high" /\ a.severity = "normal" THEN 1
            ELSE b.count - a.count
      [] by = "newest" -> DateDiff(b.latestAlert.alert_time, a.latestAlert.alert_time)
      [] by = "oldest" -> DateDiff(a.latestAlert.alert_time, b.latestAlert.alert_time)
      [] by = "device" -> NameRank(a.device) - NameRank(b.device)
      [] by = "alerts" -> b.count - a.count
      [] OTHER -> 0

RECURSIVE InsertPos(_, _, _, _)
\* Where the insertion sort puts x in the sorted prefix: before the elements it
\* compares lower than, scanning from the right.
InsertPos(sorted, x, by, k) ==
    IF k = 0 THEN 0
    ELSE IF Compare(x, sorted[k], by) < 0 THEN InsertPos(sorted, x, by, k - 1)
    ELSE k

RECURSIVE SortFrom(_, _, _, _)
SortFrom(sorted, groups, by, i) ==
    IF i > Len(groups) THEN sorted
    ELSE LET k == InsertPos(sorted, groups[i], by, Len(sorted))
         IN  SortFrom(SubSeq(sorted, 1, k) \o <<groups[i]>> \o SubSeq(sorted, k + 1, Len(sorted)),
                      groups, by, i + 1)

\* groupedArray.sort(comparator): a stable sort.
SortGroups(groups, by) == SortFrom(<<>>, groups, by, 1)

\* The devices of the groups found crash-detected, in group order.
CrashDetected(groups) ==
    LET idx == {k \in 1..Len(groups) : groups[k].severity = "crash-detected"}
    IN  [j \in 1..Cardinality(idx) |->
            groups[CHOOSE k \in idx : Cardinality({l \in idx : l < k}) = j - 1].device]

\* setCrashAlerts(prev => [...prev, ...newCrashes]); each entry is kept by its device.
MergeCrashAlerts(prev, detected) ==
    LET existing == {prev[i] : i \in 1..Len(prev)}
        fresh == {k \in 1..Len(detected) : detected[k] \notin existing}
    IN  prev \o [j \in 1..Cardinality(fresh) |->
                    detected[CHOOSE k \in fresh : Cardinality({l \in fresh : l < k}) = j - 1]]

\* groupAlertsByDevice(alertList) with the current sortBy: the new groupedAlerts.
GroupAlertsByDevice(alertList, by) == SortGroups(Classify(GroupFrom(<<>>, alertList, 1)), by)

\* ---------------------------------------------------------------------------
\* The calls of the dashboard: each handler runs up to its await, and goes on
\* when the answer arrives, with the values of the render in which it was called.
\* ---------------------------------------------------------------------------
restVars == <<syncVars, upserts, requests, parser, pageSize>>

\* A step of the user or of the interval that is counted, and a step that is not.
UserEvent(A) == events < MaxEvents /\ events' = events + 1 /\ A
Uncounted(A) == events' = events /\ A

\* GET /alerts/list?category=&page=&limit=: the page of the alerts of the
\* category, and whether a further page exists.
ListAlerts(category, pageNum) ==
    LET InCategory(a) == category = "All" \/ a.alert_type = category
        filtered == SelectSeq(serverAlerts, InCategory)
        first == (pageNum - 1) * pageSize + 1
        last == Min(pageNum * pageSize, Len(filtered))
    IN  [alerts |-> IF first > last THEN <<>> ELSE SubSeq(filtered, first, last),
         has_next |-> pageNum * pageSize < Len(filtered)]

\* The calls that await their answer, and whether there is none.
Pending == BagToSet(inflight)
Quiescent == inflight = EmptyBag
\* At most MaxInflight calls await at a time.
CanSend == BagCardinality(inflight) < MaxInflight

Send(req) == inflight' = inflight (+) One(req)
\* The call req has its answer and goes on as the call next.
GoOn(req, next) == inflight' = (inflight (-) One(req)) (+) One(next)
\* The call req has ended.
End(req) == inflight' = inflight (-) One(req)

ListKinds == {"load", "reload", "quiet", "more"}
EditKinds == {"acknowledge", "delete", "clear"}
\* syncing is set from the click on Refresh or Sync until its loadAlerts ended.
Syncing == \E r \in Pending : r.kind \in {"post", "sync", "reload"}

\* setSelectedCategory(c): the effect on [selectedCategory] sets page 1 and calls
\* loadAlerts(c, 1, false); the interval is installed again, its callback made in
\* this render.
SelectCategory(c) ==
    /\ c # selectedCategory
    /\ CanSend
    /\ selectedCategory' = c
    /\ page' = 1
    /\ Send(Req("load", c, 1, sortBy, <<>>, 0))
    /\ timer' = [category |-> c, sortBy |-> sortBy]
    /\ UNCHANGED <<restVars, uiVars, hasMore, loadingMore, selectedAlert>>

\* handleRefreshAlerts or handleSyncTodayEmails clicked (the buttons are disabled
\* while syncing): the synchronisation is asked for and awaited.
Reload ==
    /\ ~Syncing
    /\ CanSend
    /\ Send(Req("sync", selectedCategory, 1, sortBy, <<>>, 0))
    /\ UNCHANGED <<restVars, uiVars, selectedCategory, page, hasMore, loadingMore, timer, selectedAlert>>

\* The synchronisation answered: setPage(1); loadAlerts(category, 1, false), with
\* the category and the sortBy of the render of the click.
SyncAnswered(r) ==
    /\ r \in Pending
    /\ r.kind = "sync"
    /\ page' = 1
    /\ GoOn(r, [r EXCEPT !.kind = "reload"])
    /\ UNCHANGED <<restVars, uiVars, selectedCategory, hasMore, loadingMore, timer, selectedAlert>>

\* openAlertModal(group): the modal shows a group of the list, and holds it.
OpenModal(k) ==
    /\ k \in 1..Len(groupedAlerts)
    /\ selectedAlert # groupedAlerts[k].latestAlert.id
    /\ selectedAlert' = groupedAlerts[k].latestAlert.id
    /\ UNCHANGED <<restVars, uiVars, selectedCategory, page, hasMore, loadingMore, inflight,
                   timer>>

\* The modal closed by its button or by a click beside it.
CloseModal ==
    /\ selectedAlert # 0
    /\ selectedAlert' = 0
    /\ UNCHANGED <<restVars, uiVars, selectedCategory, page, hasMore, loadingMore, inflight,
                   timer>>

\* handleAcknowledgeAlert or handleDeleteAlert called from the modal, with the id
\* of selectedAlert.latestAlert, whatever the list has become since the modal was
\* opened, or handleClearHistory called: the request is sent and awaited.  The
\* button Delete closes the modal at once.
EditAlerts(kind) ==
    /\ kind \in EditKinds
    /\ kind # "clear" => selectedAlert # 0
    /\ CanSend
    /\ Send(Req(kind, "All", page, sortBy, <<>>, IF kind = "clear" THEN 0 ELSE selectedAlert))
    /\ selectedAlert' = IF kind = "delete" THEN 0 ELSE selectedAlert
    /\ UNCHANGED <<restVars, uiVars, selectedCategory, page, hasMore, loadingMore, timer>>

\* The request of the handler answered (the record of the user's account marked
\* acknowledged, the alert deleted, or every alert of the user deleted and the
\* sync checkpoint reset): the handler calls loadAlerts(), which is
\* loadAlerts(null, page, false) of its render.  The call made by
\* handleAcknowledgeAlert keeps the id: the handler closes the modal after it.
EditAnswered(r) ==
    /\ r \in Pending
    /\ r.kind \in EditKinds
    /\ LET Kept(a) == a.id # r.alertId
       IN  serverAlerts' = CASE r.kind = "delete" -> SelectSeq(serverAlerts, Kept)
                             [] r.kind = "clear" -> <<>>
                             [] OTHER -> serverAlerts
    /\ tracker_alerts' =
           CASE r.kind = "acknowledge" ->
                    {IF row.user_id = LoopAccount /\ row.email_id = r.alertId
                     THEN [row EXCEPT !.acknowledged = TRUE] ELSE row : row \in tracker_alerts}
             [] r.kind = "clear" -> {row \in tracker_alerts : row.user_id # LoopAccount}
             [] OTHER -> tracker_alerts
    /\ sync_checkpoints' = IF r.kind = "clear" THEN [sync_checkpoints EXCEPT ![LoopAccount] = 0]
                           ELSE sync_checkpoints
    /\ GoOn(r, [r EXCEPT !.kind = "load",
                         !.alertId = IF r.kind = "acknowledge" THEN @ ELSE 0])
    /\ UNCHANGED <<email_sync_runs, pass, hist, upserts, requests, parser,
                   pageSize, alerts, groupedAlerts, crashAlerts, sortBy, selectedCategory,
                   page, hasMore, loadingMore, timer, selectedAlert>>

\* The date filter set or cleared: setFilterDate; setPage(1).  The dates chosen
\* leave every alert in the list.
SetFilterDate ==
    /\ page # 1
    /\ page' = 1
    /\ UNCHANGED <<restVars, uiVars, selectedCategory, hasMore, loadingMore, inflight, timer, selectedAlert>>

\* The interval fires: loadAlertsQuiet of the render that installed it.
TimerFires ==
    /\ CanSend
    /\ Send(Req("quiet", timer.category, 1, timer.sortBy, <<>>, 0))
    /\ UNCHANGED <<restVars, uiVars, selectedCategory, page, hasMore, loadingMore, timer, selectedAlert>>

\* loadMoreAlerts: loadAlerts(category, page + 1, true), under its guard.
LoadMore ==
    /\ hasMore /\ ~loadingMore
    /\ page < MaxPage
    /\ CanSend
    /\ loadingMore' = TRUE
    /\ Send(Req("more", selectedCategory, page + 1, sortBy, alerts, 0))
    /\ UNCHANGED <<restVars, uiVars, selectedCategory, page, hasMore, timer, selectedAlert>>

\* The loadAlerts() that handleAcknowledgeAlert awaits before setShowModal(false).
AfterAcknowledge(r) == r.kind = "load" /\ r.alertId # 0

\* The answer of GET /alerts/list arrives and its caller goes on: alerts set or
\* appended to, the list grouped with the sortBy of the caller's render.
AnswerList(r) ==
    /\ r \in Pending
    /\ r.kind \in ListKinds
    /\ LET req == r
           response == ListAlerts(req.category, req.pageNum)
           alertList == IF req.kind = "more" THEN req.alerts \o response.alerts
                        ELSE response.alerts
       IN  /\ alerts' = IF req.kind = "more" THEN alerts \o response.alerts
                        ELSE response.alerts
           /\ hasMore' = response.has_next
           /\ groupedAlerts' = GroupAlertsByDevice(alertList, req.sortBy)
           /\ crashAlerts' = MergeCrashAlerts(crashAlerts,
                                 CrashDetected(Classify(GroupFrom(<<>>, alertList, 1))))
           /\ page' = CASE req.kind = "quiet" -> 1
                        [] req.kind = "more" -> req.pageNum
                        [] OTHER -> page
           /\ loadingMore' = IF req.kind = "quiet" THEN loadingMore ELSE FALSE
    /\ selectedAlert' = IF AfterAcknowledge(r) THEN 0 ELSE selectedAlert
    /\ End(r)
    /\ UNCHANGED <<restVars, serverAlerts, sortBy, selectedCategory, timer>>

\* The request fails: catch, and for loadAlerts the finally block.  loadAlerts
\* keeps its failure to itself, so that handleAcknowledgeAlert goes on after it.
FailList(r) ==
    /\ r \in Pending
    /\ loadingMore' = IF r.kind \in {"load", "reload", "more"} THEN FALSE
                      ELSE loadingMore
    /\ selectedAlert' = IF AfterAcknowledge(r) THEN 0 ELSE selectedAlert
    /\ End(r)
    /\ UNCHANGED <<restVars, uiVars, selectedCategory, page, hasMore, timer>>

\* The user picks another sort; the effect on [sortBy] regroups a non-empty list.
ChangeSortBy(by) ==
    /\ by # sortBy
    /\ sortBy' = by
    /\ IF Len(alerts) > 0
       THEN /\ groupedAlerts' = GroupAlertsByDevice(alerts, by)
            /\ crashAlerts' = MergeCrashAlerts(crashAlerts,
                                  CrashDetected(Classify(GroupFrom(<<>>, alerts, 1))))
       ELSE UNCHANGED <<groupedAlerts, crashAlerts>>
    /\ UNCHANGED <<serverAlerts, alerts, syncVars, extVars>>

\* dismissCrashAlert(device)
DismissCrashAlert(device) ==
    /\ \E i \in 1..Len(crashAlerts) : crashAlerts[i] = device
    /\ crashAlerts' = LET keep == {i \in 1..Len(crashAlerts) : crashAlerts[i] # device}
                      IN  [j \in 1..Cardinality(keep) |->
                              crashAlerts[CHOOSE k \in keep : Cardinality({l \in keep : l < k}) = j - 1]]
    /\ UNCHANGED <<serverAlerts, alerts, groupedAlerts, sortBy, syncVars, extVars>>

\* The dashboard mounted, category All: its two requests sent, the interval installed.
InitDashboard ==
    /\ selectedCategory = "All"
    /\ page = 1
    /\ hasMore = FALSE
    /\ loadingMore = FALSE
    /\ inflight = Mounted
    /\ timer = NoTimer
    /\ selectedAlert = 0
    /\ events = 0

InitUI ==
    /\ InitSync /\ InitCalls
    /\ parser = NoParse
    /\ InitDashboard
    /\ pageSize = DefaultLimit
    /\ \E n \in 0..MaxAlerts : \E f \in [1..n -> AlertFields] : serverAlerts = WithIds(f)
    /\ alerts = <<>>
    /\ groupedAlerts = <<>>
    /\ crashAlerts = <<>>
    /\ sortBy = "priority"

\* The requests of the mount and of the auto-refresh are answered; the interval
\* fires whatever is pending.
NextUI ==
    \/ \E r \in Pending : Uncounted(AnswerList(r))
    \/ Uncounted(TimerFires)
    \/ \E by \in SortOptions : ChangeSortBy(by)
    \/ \E d \in {DeviceOf([tracker_name |-> n]) : n \in TrackerNames} : DismissCrashAlert(d)

SpecUI == InitUI /\ [][NextUI]_vars

\* The same dashboard on lists whose alerts differ in alert_time.
InitLatest ==
    /\ InitSync /\ InitCalls
    /\ parser = NoParse
    /\ InitDashboard
    /\ pageSize = DefaultLimit
    /\ \E n \in 0..MaxAlerts : \E f \in [1..n -> LatestFields] : serverAlerts = WithIds(f)
    /\ alerts = <<>>
    /\ groupedAlerts = <<>>
    /\ crashAlerts = <<>>
    /\ sortBy = "priority"

SpecLatest == InitLatest /\ [][NextUI]_vars

\* Alert lists of up to three devices with the alert types that decide the
\* severity, all of one alert_time: the lists used to examine the sort.
RollupNames == {"", "Bike1", "Bike2"}
RollupTypes == {"Over-turn", "Heavy Impact", "Low Battery"}
\* The sort examined and one to leave it for.
RollupSorts == {"priority", "device"}
RollupFields == [tracker_name : RollupNames, alert_type : RollupTypes, alert_time : {1}]

InitRollup ==
    /\ InitSync /\ InitCalls
    /\ parser = NoParse
    /\ InitDashboard
    /\ pageSize = DefaultLimit
    /\ \E n \in 0..MaxRollupAlerts : \E f \in [1..n -> RollupFields] : serverAlerts = WithIds(f)
    /\ alerts = <<>>
    /\ groupedAlerts = <<>>
    /\ crashAlerts = <<>>
    /\ sortBy = "priority"

NextRollup ==
    \/ \E r \in Pending : Uncounted(AnswerList(r))
    \/ Uncounted(TimerFires)
    \/ \E by \in RollupSorts : ChangeSortBy(by)
    \/ \E d \in {DeviceOf([tracker_name |-> n]) : n \in RollupNames} : DismissCrashAlert(d)

SpecRollup == InitRollup /\ [][NextRollup]_vars

(***************************************************************************)
(* handleSyncTodayEmails: the progressive endpoint is called until a        *)
(* response has completed = true, then the list is loaded again.           *)
(***************************************************************************)
\* The handler is inside its loop: a POST /sync/progressive is on its way to the
\* endpoint (post) or the endpoint runs its call and the answer is awaited (sync).
LoopPending == \E r \in Pending : r.kind \in {"post", "sync"}

\* The Sync button clicked (it is disabled while syncing): setSyncing(true) and
\* the first api.post("/sync/progressive").
SyncTodayEmails ==
    /\ ~Syncing
    /\ CanSend
    /\ Send(Req("post", selectedCategory, 1, sortBy, <<>>, 0))
    /\ UNCHANGED <<syncVars, uiVars, upserts, requests, parser, selectedCategory, page,
                   hasMore, loadingMore, timer, selectedAlert, pageSize, events>>

\* The endpoint takes the POST: one run_batch call for the user's account, when
\* no call of the endpoint is under way.  The batch size is the endpoint's and
\* stays the same from call to call.
LoopServe(p, lim, r) ==
    /\ r \in Pending
    /\ r.kind = "post"
    /\ pass[p].pc \in Resting
    /\ pass[p].pc # "idle" => lim = pass[p].limit
    /\ BeginRun(p, LoopAccount, lim)
    /\ GoOn(r, [r EXCEPT !.kind = "sync"])
    /\ UNCHANGED <<uiVars, upserts, requests, parser, selectedCategory, page, hasMore,
                   loadingMore, timer, selectedAlert, pageSize, events>>

\* A further iteration: the response had completed = false; after the delay
\* the POST is sent again.
LoopAgain(p, r) ==
    /\ r \in Pending
    /\ r.kind = "sync"
    /\ pass[p].pc = "done"
    /\ ~pass[p].resp.completed
    /\ GoOn(r, [r EXCEPT !.kind = "post"])
    /\ UNCHANGED <<syncVars, uiVars, upserts, requests, parser, selectedCategory, page,
                   hasMore, loadingMore, timer, selectedAlert, pageSize, events>>

\* The response has completed = true: the loop is left, setPage(1) and
\* loadAlerts(category, 1, false) with the values of the render of the click.
LoopExit(p, r) ==
    /\ pass[p].pc = "done"
    /\ pass[p].resp.completed
    /\ SyncAnswered(r)
    /\ events' = events

\* A POST of the loop fails, whatever the endpoint does or has done with it:
\* catch and finally, the handler ends.
LoopFails(r) ==
    /\ r \in Pending
    /\ r.kind \in {"post", "sync"}
    /\ End(r)
    /\ UNCHANGED <<syncVars, uiVars, upserts, requests, parser, selectedCategory, page,
                   hasMore, loadingMore, timer, selectedAlert, pageSize, events>>

NextLoop ==
    \/ SyncTodayEmails
    \/ \E p \in Passes, lim \in BatchLimits, r \in Pending : LoopServe(p, lim, r)
    \/ \E p \in Passes, r \in Pending : LoopAgain(p, r)
    \/ \E p \in Passes, R \in SUBSET MsgIds : Fetch(p, R)
    \/ \E p \in Passes : ProcessMessage(p)
    \/ \E p \in Passes : PersistFail(p)
    \/ \E p \in Passes : FinishBatch(p)
    \/ \E p \in Passes, r \in Pending : LoopExit(p, r)
    \/ \E r \in Pending : Uncounted(AnswerList(r))
    \/ \E r \in Pending : LoopFails(r)
    \/ \E r \in Pending : r.kind = "reload" /\ Uncounted(FailList(r))

\* What the handler and the endpoint do by themselves: the endpoint takes a POST
\* that was sent, the source answers, each message of a batch is handled (stored
\* or failed), the call ends, and the loop handles its answer: it posts again or
\* leaves.  Nothing makes the user click, and nothing makes a request fail.
FairLoop ==
    /\ WF_vars(\E p \in Passes, lim \in BatchLimits, r \in Pending : LoopServe(p, lim, r))
    /\ WF_vars(\E p \in Passes, r \in Pending : LoopAgain(p, r))
    /\ WF_vars(\E p \in Passes, R \in SUBSET MsgIds : Fetch(p, R))
    /\ WF_vars(\E p \in Passes : ProcessMessage(p) \/ PersistFail(p))
    /\ WF_vars(\E p \in Passes : FinishBatch(p))
    /\ WF_vars(\E p \in Passes, r \in Pending : LoopExit(p, r))

SpecLoop == Init /\ [][NextLoop]_vars /\ FairLoop

(***************************************************************************)
(* The pass next to the presentation action that writes lifecycle fields.  *)
(***************************************************************************)
\* The alerts a user opens and acknowledges: those of the first message.
AckMsgIds == {1}

\* handleAcknowledgeAlert(id) called for an alert stored for the user: POST
\* /alerts/{id}/acknowledge is sent and awaited (EditAnswered and AnswerList are
\* the rest of the handler).  The id of an alert is taken to be that of its message.
Acknowledge(m) ==
    /\ \E row \in tracker_alerts : row.user_id = LoopAccount /\ row.email_id = m
    /\ CanSend
    /\ Send(Req("acknowledge", "All", page, sortBy, <<>>, m))
    /\ UNCHANGED <<restVars, uiVars, selectedCategory, page, hasMore, loadingMore, timer,
                   selectedAlert>>

\* The passes of the account whose user acknowledges.
NextLifecycle ==
    \/ \E p \in Passes, lim \in BatchLimits : StartBatch(p, LoopAccount, lim)
    \/ \E p \in Passes, R \in SUBSET MsgIds : Fetch(p, R)
    \/ \E p \in Passes : TransportFail(p)
    \/ \E p \in Passes : ProcessMessage(p)
    \/ \E p \in Passes : PersistFail(p)
    \/ \E p \in Passes : FinishBatch(p)
    \/ \E m \in AckMsgIds : Uncounted(Acknowledge(m))
    \/ \E r \in Pending : Uncounted(EditAnswered(r))
    \/ \E r \in Pending : Uncounted(AnswerList(r))
    \/ \E r \in Pending : Uncounted(FailList(r))

SpecLifecycle == Init /\ [][NextLifecycle]_vars

(***************************************************************************)
(* Properties of the ingestion side.                                       *)
(***************************************************************************)
RowsOf(table, a, m) == {r \in table : r.user_id = a /\ r.email_id = m}

\* The step from the unprimed to the primed state is an upsert executed by call p.
UpsertStep(p) ==
    /\ pass[p].pc = "process"
    /\ pass'[p].idx = pass[p].idx + 1
    /\ pass'[p].last \in {"inserted", "already_exists"}

\* C1: at most one AlertRecord exists per (account, message id); an upsert whose key
\* is absent returns inserted and adds exactly that record, an upsert whose key is
\* present returns already_exists, raises nothing and leaves the table as it was.
C1_UpsertIdempotent ==
    [][ /\ \A a \in Accounts, m \in MsgIds : Cardinality(RowsOf(tracker_alerts', a, m)) <= 1
        /\ \A p \in Passes :
              UpsertStep(p) =>
                 LET a == pass[p].account
                     m == pass[p].batch[pass[p].idx + 1]
                 IN  IF HasRecord(tracker_alerts, a, m)
                     THEN /\ pass'[p].last = "already_exists"
                          /\ tracker_alerts' = tracker_alerts
                     ELSE /\ pass'[p].last = "inserted"
                          /\ tracker_alerts \subseteq tracker_alerts'
                          /\ Cardinality(tracker_alerts') = Cardinality(tracker_alerts) + 1
                          /\ Cardinality(RowsOf(tracker_alerts', a, m)) = 1
      ]_vars

\* A repeated upsert has acted: the last upsert of a call met an existing record.
C1_Witness ==
    \E p \in Passes :
        /\ pass[p].last = "already_exists"
        /\ pass[p].idx > 0
        /\ Cardinality(RowsOf(tracker_alerts, pass[p].account, pass[p].batch[pass[p].idx])) = 1

\* C2: the checkpoint of an account never decreases.
C2_CheckpointNeverDecreases ==
    [][\A a \in Accounts : sync_checkpoints'[a] >= sync_checkpoints[a]]_vars

\* C3 (as stated): a call that advanced the checkpoint has an AlertRecord in the
\* store for every message of its batch.
C3_AdvanceOnlyWhenAllPersisted ==
    \A p \in Passes :
        (pass[p].pc = "done" /\ pass[p].advanced) =>
            \A i \in 1..Len(pass[p].batch) :
                HasRecord(tracker_alerts, pass[p].account, pass[p].batch[i])

\* C3 (amended): a call that advanced the checkpoint has attempted every message of
\* its batch, each of them is stored or has its failure recorded; a call that has not
\* reached the end of its batch, or aborted, has left the checkpoint at the marker it
\* read.
C3_AdvanceOnlyWhenAllAttempted ==
    \A p \in Passes :
        /\ (pass[p].pc = "done" /\ pass[p].advanced) =>
              \A i \in 1..Len(pass[p].batch) :
                  \/ HasRecord(tracker_alerts, pass[p].account, pass[p].batch[i])
                  \/ pass[p].batch[i] \in pass[p].errors
        /\ pass[p].pc \in {"fetch", "process", "aborted"} =>
              sync_checkpoints[pass[p].account] = pass[p].marker

\* A call advanced the checkpoint although one message of its batch failed.
C3_Witness ==
    \E p \in Passes :
        /\ pass[p].pc = "done"
        /\ pass[p].advanced
        /\ pass[p].errors # {}
        /\ sync_checkpoints[pass[p].account] = pass[p].batch[Len(pass[p].batch)]

\* C4: when a caller has invoked run_batch until completed = true and no message
\* failed to persist, the AlertRecords of the account are exactly the messages of
\* its mailbox, however many calls aborted or were spaced out before.
C4_ResumeYieldsSameRecords ==
    \A p \in Passes :
        (pass[p].pc = "done" /\ pass[p].resp.completed /\ ~hist[pass[p].account].failed) =>
            RecordIds(tracker_alerts, pass[p].account) = Mailbox(pass[p].account)

\* A sync of several calls, one of them aborted, was resumed and ran to completion.
C4_Witness ==
    \E p \in Passes :
        /\ pass[p].pc = "done"
        /\ pass[p].resp.completed
        /\ pass[p].account = "A"
        /\ hist["A"].aborted
        /\ ~hist["A"].failed
        /\ pass[p].marker > 0
        /\ pass[p].new > 0
        /\ RecordIds(tracker_alerts, "A") = Mailbox("A")

\* C5: the step on which a call aborts changes neither the checkpoint nor the
\* AlertRecords; an aborted call has left the checkpoint at the marker it read and
\* every record that existed when it started; the retry reads the same marker.
C5_AbortLeavesCheckpoint ==
    [][\A p \in Passes :
          /\ (pass[p].pc # "aborted" /\ pass'[p].pc = "aborted") =>
                /\ sync_checkpoints' = sync_checkpoints
                /\ tracker_alerts' = tracker_alerts
          /\ pass'[p].pc = "aborted" =>
                /\ sync_checkpoints'[pass'[p].account] = pass'[p].marker
                /\ pass'[p].before \subseteq RecordIds(tracker_alerts', pass'[p].account)
          /\ (pass[p].pc = "aborted" /\ pass'[p].pc = "fetch"
                  /\ pass'[p].account = pass[p].account) =>
                pass'[p].marker = pass[p].marker
      ]_vars

\* A call aborted in the middle of its batch, after it had stored a new record.
C5_Witness ==
    \E p \in Passes :
        /\ pass[p].pc = "aborted"
        /\ pass[p].idx > 0
        /\ pass[p].new > 0
        /\ pass[p].idx < Len(pass[p].batch)
        /\ sync_checkpoints[pass[p].account] = pass[p].marker

\* C6: a call that returned has attempted every message of its batch: each one is
\* stored or is listed in the error summary of the call's SyncRun.
C6_FailureDoesNotStopBatch ==
    \A p \in Passes :
        pass[p].pc = "done" =>
            /\ pass[p].idx = Len(pass[p].batch)
            /\ email_sync_runs[p].error_summary = pass[p].errors
            /\ \A i \in 1..Len(pass[p].batch) :
                  \/ pass[p].batch[i] \in email_sync_runs[p].error_summary
                  \/ HasRecord(tracker_alerts, pass[p].account, pass[p].batch[i])

\* A message failed and a later message of the same batch was stored by the call.
C6_Witness ==
    \E p \in Passes :
        /\ pass[p].pc = "done"
        /\ \E i, j \in 1..Len(pass[p].batch) :
              /\ i < j
              /\ pass[p].batch[i] \in email_sync_runs[p].error_summary
              /\ pass[p].batch[j] \notin pass[p].before
              /\ pass[p].batch[j] \notin pass[p].errors
              /\ HasRecord(tracker_alerts, pass[p].account, pass[p].batch[j])

\* C11: a call never holds or processes more than batch_limit messages, however many
\* are pending, and a call that returned reports the messages of that one batch.
C11_AtMostBatchLimit ==
    \A p \in Passes :
        /\ Len(pass[p].batch) <= pass[p].limit
        /\ pass[p].idx <= Len(pass[p].batch)
        /\ pass[p].pc = "done" =>
              /\ pass[p].resp.valid
              /\ pass[p].resp.processed = Len(pass[p].batch)
              /\ pass[p].resp.processed <= pass[p].limit
              /\ pass[p].resp.total = pass[p].total

\* A call with limit 1 returned after one message while more were pending.
C11_Witness ==
    \E p \in Passes :
        /\ pass[p].pc = "done"
        /\ pass[p].limit = 1
        /\ pass[p].total = MaxMsgId
        /\ pass[p].resp.processed = 1
        /\ pass[p].resp.remaining = MaxMsgId - 1

LifecycleOf(r) ==
    [status |-> r.status, acknowledged |-> r.acknowledged, notes |-> r.notes,
     assigned_to |-> r.assigned_to, favorite |-> r.favorite]

\* C14: no step of a run_batch call changes the lifecycle fields of an existing
\* AlertRecord: after the step the record of the same (account, message id) carries
\* the same status, acknowledged, notes, assigned_to and favorite.
C14_ResyncKeepsLifecycle ==
    [][\A p \in Passes :
          pass'[p] # pass[p] =>
              \A r \in tracker_alerts :
                  \E q \in tracker_alerts' :
                      /\ q.user_id = r.user_id
                      /\ q.email_id = r.email_id
                      /\ LifecycleOf(q) = LifecycleOf(r)
      ]_vars

\* A call has met again, by redelivery, a record that was acknowledged: the record
\* is still acknowledged.
C14_Witness ==
    \E p \in Passes :
        /\ pass[p].last = "already_exists"
        /\ pass[p].idx > 0
        /\ \E r \in tracker_alerts :
              /\ r.user_id = pass[p].account
              /\ r.email_id = pass[p].batch[pass[p].idx]
              /\ r.acknowledged

\* C15: the key is the pair (account, message id): an upsert of a message id that
\* only another account has ingested returns inserted and creates the account's own
\* record, and the other account's record stays.
C15_KeyIsAccountAndMessage ==
    [][\A p \in Passes :
          LET a == pass[p].account
              m == pass[p].batch[pass[p].idx + 1]
          IN  (/\ UpsertStep(p)
               /\ ~HasRecord(tracker_alerts, a, m)
               /\ \E b \in Accounts \ {a} : HasRecord(tracker_alerts, b, m)) =>
                  /\ pass'[p].last = "inserted"
                  /\ Cardinality(RowsOf(tracker_alerts', a, m)) = 1
                  /\ \A b \in Accounts \ {a} :
                        RowsOf(tracker_alerts', b, m) = RowsOf(tracker_alerts, b, m)
      ]_vars

\* Account B has inserted message 1, which account A had ingested before.
C15_Witness ==
    \E p \in Passes :
        /\ pass[p].account = "B"
        /\ pass[p].idx = 1
        /\ pass[p].batch[1] = 1
        /\ pass[p].last = "inserted"
        /\ pass[p].before = {}
        /\ HasRecord(tracker_alerts, "A", 1)
        /\ HasRecord(tracker_alerts, "B", 1)

UpsertsOf(a, m) == {w \in Workers : upserts[w].account = a /\ upserts[w].m = m}

\* C16: whatever the interleaving of concurrent upsert calls, a key never has more
\* than one record, the calls that returned inserted for a key are as many as its
\* records, and once every call for a key has returned, its record exists, exactly
\* one call returned inserted and the others already_exists.
C16_ConcurrentUpserts ==
    \A a \in Accounts, m \in MsgIds :
        LET calls == UpsertsOf(a, m)
            inserted == {w \in calls : upserts[w].result = "inserted"}
        IN  /\ Cardinality(RowsOf(tracker_alerts, a, m)) <= 1
            /\ Cardinality(inserted) = Cardinality(RowsOf(tracker_alerts, a, m))
            /\ (calls # {} /\ \A w \in calls : upserts[w].pc = "returned") =>
                  /\ Cardinality(RowsOf(tracker_alerts, a, m)) = 1
                  /\ Cardinality(inserted) = 1
                  /\ \A w \in calls \ inserted : upserts[w].result = "already_exists"

\* Two calls raced on message 1 of account A while a third stored message 2: all
\* returned, one of the two inserted and the other found the record.
C16_Witness ==
    /\ \A w \in Workers : upserts[w].pc = "returned" /\ upserts[w].account = "A"
    /\ Cardinality(UpsertsOf("A", 1)) = 2
    /\ Cardinality(UpsertsOf("A", 2)) = 1
    /\ \E w \in UpsertsOf("A", 1) : upserts[w].result = "already_exists"
    /\ Cardinality(RowsOf(tracker_alerts, "A", 1)) = 1
    /\ Cardinality(RowsOf(tracker_alerts, "A", 2)) = 1

\* C17: a request causes at most one call of /auth/refresh and is sent at most
\* twice; a request to /auth/refresh causes none and is sent once; a request that
\* was sent again is not refreshed again.
C17_RefreshAtMostOnce ==
    \A r \in Requests :
        /\ requests[r].refreshes <= 1
        /\ requests[r].sent <= 2
        /\ requests[r].sent = 2 => requests[r].refreshes = 1 /\ requests[r].retry
        /\ IsRefreshUrl(requests[r].url) => requests[r].refreshes = 0 /\ requests[r].sent <= 1
        /\ requests[r].pc = "refreshing" => requests[r].sent = 1

\* A request answered 401 was refreshed and sent again, and the 401 on the second
\* sending was rejected to the caller.
C17_Witness ==
    \E r \in Requests :
        /\ requests[r].pc = "rejected"
        /\ requests[r].status = 401
        /\ requests[r].sent = 2
        /\ requests[r].refreshes = 1

\* A message the checkpoint of its account has passed without a record of it.
IsSkipped(a, m) ==
    /\ m \in Mailbox(a)
    /\ m <= sync_checkpoints[a]
    /\ ~HasRecord(tracker_alerts, a, m)

\* C21: a message whose persistence failed in a batch in which another message
\* succeeded is skipped for good: the call sets the checkpoint at or past it, and
\* from then on no call of the account is answered with it by MessageSource or
\* stores it.
C21_FailedMessageSkippedForGood ==
    [][\A p \in Passes :
          /\ (/\ pass[p].pc = "process"
               /\ pass'[p].pc = "done"
               /\ pass[p].errors # {}
               /\ \E i \in 1..Len(pass[p].batch) : pass[p].batch[i] \notin pass[p].errors) =>
                 /\ pass'[p].advanced
                 /\ \A m \in pass[p].errors : m <= sync_checkpoints'[pass[p].account]
          /\ (pass[p].pc = "fetch" /\ pass'[p].pc = "process") =>
                 \A i \in 1..Len(pass'[p].batch) :
                     ~IsSkipped(pass[p].account, pass'[p].batch[i])
          /\ (pass[p].pc = "process" /\ pass'[p].idx = pass[p].idx + 1
                                     /\ pass'[p].last = "inserted") =>
                 ~IsSkipped(pass[p].account, pass[p].batch[pass[p].idx + 1])
      ]_vars

\* C22: the loop of handleSyncTodayEmails ends.  The mailbox of the account is
\* fixed and finite, and a call that fails ends the handler: whenever the handler
\* is inside its loop, at some later time it has left it.
C22_LoopTerminates == LoopPending ~> ~LoopPending

\* C23: while a pass is under way its SyncRun exists with status running; the step
\* that ends the pass finalizes it to success or error; the SyncRun of a pass that
\* has ended does not change until the caller starts another pass.
C23_SyncRunLifecycle ==
    [][\A p \in Passes :
          /\ pass'[p].pc \in {"fetch", "process"} =>
                /\ email_sync_runs'[p].status = "running"
                /\ email_sync_runs'[p].user_id = pass'[p].account
          /\ (pass[p].pc \in {"fetch", "process"} /\ pass'[p].pc \in {"done", "aborted"}) =>
                /\ email_sync_runs[p].status = "running"
                /\ email_sync_runs'[p].status \in {"success", "error"}
          /\ (pass[p].pc \in {"done", "aborted"} /\ pass'[p].pc \in {"done", "aborted"}) =>
                email_sync_runs'[p] = email_sync_runs[p]
      ]_vars

\* C25: when passes of one account overlap, with a source that redelivers
\* nothing and no failure, no write of the checkpoint puts it at a marker older
\* than the one it holds.
C25_OverlapKeepsNewestMarker ==
    [][sync_checkpoints'[LoopAccount] >= sync_checkpoints[LoopAccount]]_vars

\* The scenario of C10: a call with limit 10 was answered with three messages, one
\* of them ingested by an earlier checkpointed batch and two new, and none failed.
C10_Scenario(p) ==
    /\ pass[p].pc = "done"
    /\ pass[p].limit = 10
    /\ Len(pass[p].batch) = 3
    /\ pass[p].errors = {}
    /\ Cardinality({i \in 1..3 : pass[p].batch[i] \in pass[p].before
                                   /\ pass[p].batch[i] <= pass[p].marker}) = 1
    /\ Cardinality({i \in 1..3 : pass[p].batch[i] \notin pass[p].before}) = 2

\* C10: after that call exactly two new AlertRecords exist, the checkpoint is the id
\* of the last message of the batch and the call returned completed = true.
C10_EndToEnd ==
    \A p \in Passes :
        C10_Scenario(p) =>
            /\ Cardinality(RecordIds(tracker_alerts, pass[p].account) \ pass[p].before) = 2
            /\ sync_checkpoints[pass[p].account] = pass[p].batch[3]
            /\ pass[p].resp.completed
            /\ pass[p].resp.remaining = 0

\* The scenario of C10 has happened.
C10_Witness ==
    \E p \in Passes :
        /\ C10_Scenario(p)
        /\ pass[p].new = 2
        /\ sync_checkpoints[pass[p].account] = pass[p].batch[3]

(***************************************************************************)
(* Properties of the presentation side.                                    *)
(***************************************************************************)
TypesOf(group) == {group.alerts[i].alert_type : i \in 1..Len(group.alerts)}

\* C7: a device group is crash-detected exactly when its alert types contain both
\* Over-turn and Heavy Impact.
C7_CrashDetectedRule ==
    \A k \in 1..Len(groupedAlerts) :
        (groupedAlerts[k].severity = "crash-detected")
            <=> ({"Over-turn", "Heavy Impact"} \subseteq TypesOf(groupedAlerts[k]))

\* A device with a Light Sensor and an Over-turn alert has been classified, and is
\* high, not crash-detected.
C7_Witness ==
    \E k \in 1..Len(groupedAlerts) :
        /\ groupedAlerts[k].count = 2
        /\ TypesOf(groupedAlerts[k]) = {"Light Sensor", "Over-turn"}
        /\ groupedAlerts[k].severity = "high"

\* C8 (as stated): a group that is not crash-detected is high exactly when its alert
\* types contain Over-turn, Heavy Impact or No Communication, and normal otherwise.
C8_HighRuleWithNoCommunication ==
    \A k \in 1..Len(groupedAlerts) :
        groupedAlerts[k].severity # "crash-detected" =>
            /\ (groupedAlerts[k].severity = "high")
                  <=> (TypesOf(groupedAlerts[k])
                          \cap {"Over-turn", "Heavy Impact", "No Communication"} # {})
            /\ groupedAlerts[k].severity \in {"high", "normal"}

\* C8 (amended): a group that is not crash-detected is high exactly when its alert
\* types contain Over-turn or Heavy Impact, and normal otherwise.
C8_HighRule ==
    \A k \in 1..Len(groupedAlerts) :
        groupedAlerts[k].severity # "crash-detected" =>
            /\ (groupedAlerts[k].severity = "high")
                  <=> (TypesOf(groupedAlerts[k]) \cap {"Over-turn", "Heavy Impact"} # {})
            /\ groupedAlerts[k].severity \in {"high", "normal"}

\* A group whose only alerts are No Communication is shown as normal, next to a high one.
C8_Witness ==
    \E k, l \in 1..Len(groupedAlerts) :
        /\ TypesOf(groupedAlerts[k]) = {"No Communication"}
        /\ groupedAlerts[k].severity = "normal"
        /\ groupedAlerts[l].severity = "high"

RECURSIVE SumCounts(_, _)
SumCounts(groups, k) == IF k > Len(groups) THEN 0 ELSE groups[k].count + SumCounts(groups, k + 1)

\* C9: the alert counts of the groups add up to the number of alerts grouped.
C9_CountsAddUp ==
    SumCounts(groupedAlerts, 1) = Len(alerts)

\* Two groups are shown for a list of alerts.
C9_Witness ==
    /\ Len(alerts) = MaxAlerts
    /\ Len(groupedAlerts) = 2
    /\ SumCounts(groupedAlerts, 1) = MaxAlerts

\* The device a record belongs to: its name, or "Unknown" when it has none.
BucketOf(alert) == IF alert.tracker_name = "" THEN "Unknown" ELSE alert.tracker_name

\* C18: the groups partition the grouped alerts by device: no two groups have the
\* same device, no group is empty, every alert of a group has the group's device
\* (its tracker name, or "Unknown" when the name is empty), and every alert of the
\* list is in exactly one group.
C18_GroupsPartitionAlerts ==
    /\ \A k, l \in 1..Len(groupedAlerts) :
          groupedAlerts[k].device = groupedAlerts[l].device => k = l
    /\ \A k \in 1..Len(groupedAlerts) :
          /\ Len(groupedAlerts[k].alerts) > 0
          /\ \A i \in 1..Len(groupedAlerts[k].alerts) :
                BucketOf(groupedAlerts[k].alerts[i]) = groupedAlerts[k].device
    /\ \A j \in 1..Len(alerts) :
          Cardinality({<<k, i>> \in (1..Len(groupedAlerts)) \X (1..MaxAlerts + 1) :
                          /\ i <= Len(groupedAlerts[k].alerts)
                          /\ groupedAlerts[k].alerts[i] = alerts[j]}) = 1

\* An alert without a name and an alert of Bike1 are shown in two groups.
C18_Witness ==
    /\ Len(alerts) = 2
    /\ Len(groupedAlerts) = 2
    /\ \E k \in 1..2 : /\ groupedAlerts[k].device = "Unknown"
                        /\ groupedAlerts[k].alerts[1].tracker_name = ""
    /\ \E k \in 1..2 : groupedAlerts[k].device = "Bike1"

HasTime(alert) == alert.alert_time > 0

\* C19: the latest alert of a group is an alert of the group; when alerts of the
\* group have a parsable alert_time it is the first alert, in input order, that
\* carries the greatest of them; when none has, it is the first alert of the group.
C19_LatestIsMaximum ==
    \A k \in 1..Len(groupedAlerts) :
        LET g == groupedAlerts[k]
            timed == {i \in 1..Len(g.alerts) : HasTime(g.alerts[i])}
            best == {i \in timed : \A j \in timed : g.alerts[j].alert_time <= g.alerts[i].alert_time}
        IN  IF timed = {}
            THEN g.latestAlert = g.alerts[1]
            ELSE g.latestAlert = g.alerts[CHOOSE i \in best : \A j \in best : i <= j]

Rank(g) == CASE g.severity = "crash-detected" -> 3 [] g.severity = "high" -> 2 [] OTHER -> 1

\* C20: under the priority sort no group precedes a group of higher severity,
\* groups of equal severity are in non-increasing order of count, and the list
\* shown holds the same groups as the unsorted list of groups of the alerts.
C20_PrioritySort ==
    sortBy = "priority" =>
        LET unsorted == Classify(GroupFrom(<<>>, alerts, 1))
        IN  /\ \A i, j \in 1..Len(groupedAlerts) :
                  i < j =>
                      /\ Rank(groupedAlerts[i]) >= Rank(groupedAlerts[j])
                      /\ Rank(groupedAlerts[i]) = Rank(groupedAlerts[j]) =>
                             groupedAlerts[i].count >= groupedAlerts[j].count
            /\ Len(groupedAlerts) = Len(unsorted)
            /\ {groupedAlerts[i] : i \in 1..Len(groupedAlerts)}
                  = {unsorted[i] : i \in 1..Len(unsorted)}

\* The sort moved a high group before a normal group that was met first, and the
\* list has groups of different counts.
C20_Witness ==
    /\ sortBy = "priority"
    /\ Len(groupedAlerts) = 2
    /\ groupedAlerts[1].severity = "high"
    /\ groupedAlerts[2].severity = "normal"
    /\ groupedAlerts[2].count = 2
    /\ groupedAlerts[1].count = 1
    /\ DeviceOf(alerts[1]) = groupedAlerts[2].device

\* ---------------------------------------------------------------------------
\* FieldParser.parse: a body is a list of "Label: value" lines.  The lines that
\* matter here are the alert type, the tracker name and "Latitude, Longitude:";
\* the two values of the coordinate line are kept as the characters received.
\* ---------------------------------------------------------------------------
Digits == {"0", "5"}
CoordTokens ==
    { <<"5", "1", ".", "4">>, <<"-", "0", ".", "5">>, <<"5">>, <<"a", "b", "c">>,
      <<"5", ".">>, <<>> }
CoordLines ==
    {NoCoordLine} \cup {[present |-> TRUE, lat |-> a, lon |-> b] : a, b \in CoordTokens}
TypeLines == {"missing", "Over-turn", "Heavy Impact"}
NameLines == {"missing", "Bike1"}
Bodies == [type : TypeLines, name : NameLines, coord : CoordLines]

RECURSIVE AllDigits(_)
AllDigits(t) ==
    IF t = <<>> THEN TRUE
    ELSE Head(t) \in Digits \cup {"1", "4"} /\ AllDigits(Tail(t))

\* The position of the first "." of t, 0 when there is none.
DotAt(t) ==
    IF \E i \in 1..Len(t) : t[i] = "."
    THEN CHOOSE i \in 1..Len(t) : t[i] = "." /\ \A j \in 1..(i - 1) : t[j] # "."
    ELSE 0

\* A valid decimal: an optional sign, digits, and optionally a point followed by
\* digits.
IsDecimal(t) ==
    LET u == IF t # <<>> /\ Head(t) = "-" THEN Tail(t) ELSE t
        d == DotAt(u)
    IN  IF d = 0 THEN u # <<>> /\ AllDigits(u)
        ELSE /\ d > 1 /\ d < Len(u)
             /\ AllDigits(SubSeq(u, 1, d - 1))
             /\ AllDigits(SubSeq(u, d + 1, Len(u)))

\* An earlier variant: each coordinate is kept when it parses on its own.
\* The paired pattern: both values or none.
ParseCoordinates(line) ==
    IF line.present /\ IsDecimal(line.lat) /\ IsDecimal(line.lon)
    THEN [latitude |-> line.lat, longitude |-> line.lon]
    ELSE [latitude |-> NoCoordinate, longitude |-> NoCoordinate]

\* Every field is independently optional: a line that is missing leaves its
\* field absent.
ParseFields(body) ==
    LET c == ParseCoordinates(body.coord)
    IN  [alert_type |-> IF body.type = "missing" THEN "absent" ELSE body.type,
         tracker_name |-> IF body.name = "missing" THEN "absent" ELSE body.name,
         latitude |-> c.latitude,
         longitude |-> c.longitude]

Parse ==
    /\ parser.pc = "raw"
    /\ parser' = [parser EXCEPT !.pc = "parsed", !.fields = ParseFields(parser.body)]
    /\ UNCHANGED <<syncVars, uiVars, upserts, requests, raceVars>>

InitParse ==
    /\ InitSync /\ InitUI0 /\ InitCalls /\ InitRace0
    /\ parser \in {[pc |-> "raw", body |-> b, fields |-> NoFields] : b \in Bodies}

NextParse == Parse
SpecParse == InitParse /\ [][NextParse]_vars

\* ---------------------------------------------------------------------------
\* The dashboard with categories and pages.
\* ---------------------------------------------------------------------------
Categories == {"All", "Over-turn"}
RaceNames == {"Bike1", "Bike2"}
RaceTypes == {"Over-turn", "Low Battery"}
RaceSorts == {"priority", "device"}
RaceFields == [tracker_name : RaceNames, alert_type : RaceTypes, alert_time : {1}]

InitRace ==
    /\ InitSync /\ InitCalls
    /\ parser = NoParse
    /\ InitDashboard
    /\ pageSize = PageLimit
    /\ \E n \in 0..MaxRaceAlerts : \E f \in [1..n -> RaceFields] : serverAlerts = WithIds(f)
    /\ alerts = <<>>
    /\ groupedAlerts = <<>>
    /\ crashAlerts = <<>>
    /\ sortBy = "priority"

\* Every request is answered.
NextAnswered ==
    \/ \E c \in Categories : UserEvent(SelectCategory(c))
    \/ \E by \in RaceSorts : ChangeSortBy(by)
    \/ UserEvent(Reload)
    \/ \E r \in Pending : Uncounted(SyncAnswered(r))
    \/ \E k \in 1..MaxRaceAlerts : UserEvent(OpenModal(k))
    \/ UserEvent(CloseModal)
    \/ \E kind \in EditKinds : UserEvent(EditAlerts(kind))
    \/ \E r \in Pending : Uncounted(EditAnswered(r))
    \/ UserEvent(SetFilterDate)
    \/ UserEvent(TimerFires)
    \/ UserEvent(LoadMore)
    \/ \E r \in Pending : Uncounted(AnswerList(r))

SpecAnswered == InitRace /\ [][NextAnswered]_vars

\* Requests may fail as well.
NextRace ==
    \/ NextAnswered
    \/ \E r \in Pending : Uncounted(FailList(r))

SpecRace == InitRace /\ [][NextRace]_vars

OfCategory(list, c) == \A i \in 1..Len(list) : c = "All" \/ list[i].alert_type = c
IsPrefix(a, b) == Len(a) <= Len(b) /\ \A i \in 1..Len(a) : a[i] = b[i]

\* C26: when every request has been answered, what is shown belongs to the
\* selected category: alerts starts with the first page of that category and
\* holds, like every group of groupedAlerts, only alerts of that category.
C26_ShownForSelectedCategory ==
    Quiescent =>
        /\ IsPrefix(ListAlerts(selectedCategory, 1).alerts, alerts)
        /\ OfCategory(alerts, selectedCategory)
        /\ \A k \in 1..Len(groupedAlerts) : OfCategory(groupedAlerts[k].alerts, selectedCategory)

\* C27: the step in which the answer of an auto-refresh is handled leaves
\* groupedAlerts in the order of the sort option selected at that moment.
C27_RefreshOrderedBySortBy ==
    [][\A r \in Pending :
          (r.kind = "quiet" /\ End(r)) =>
              groupedAlerts' = GroupAlertsByDevice(alerts', sortBy)]_vars

\* C28: whenever no request is in flight, the counts of the groups add up to
\* the number of alerts held in state.
C28_GroupsAggregateAlerts ==
    Quiescent => SumCounts(groupedAlerts, 1) = Len(alerts)

AlertsOfDevice(list, d) == {list[i] : i \in {j \in 1..Len(list) : DeviceOf(list[j]) = d}}
InCrashAlerts(list, d) == \E i \in 1..Len(list) : list[i] = d

\* C29: a device that has alerts in state and no crash notification (it was
\* dismissed, or it was never found crash-detected) gets none in a step that
\* leaves its alerts as they are.
C29_DismissedStaysDismissed ==
    [][\A d \in {DeviceOf([tracker_name |-> n]) : n \in TrackerNames} :
          (/\ AlertsOfDevice(alerts, d) # {}
           /\ AlertsOfDevice(alerts', d) = AlertsOfDevice(alerts, d)
           /\ ~InCrashAlerts(crashAlerts, d))
          => ~InCrashAlerts(crashAlerts', d)]_vars

MoreInFlight == \E r \in Pending : r.kind = "more"
MoreSent(r) == r.kind = "more" /\ Send(r)
MoreEnded(r) == r.kind = "more" /\ End(r)

\* C30: a load-more is sent only when hasMore is set and no load-more is in
\* flight, and sending it changes neither page nor alerts; when it ends, either
\* nothing of page and alerts has changed (the fetch failed) or the page fetched
\* was appended to alerts and page went up by one.
C30_LoadMoreOnlyOnSuccess ==
    [][/\ \A r \in BagToSet(inflight') :
             MoreSent(r) => /\ hasMore /\ ~MoreInFlight
                            /\ page' = page /\ alerts' = alerts
       /\ \A r \in Pending :
             MoreEnded(r) =>
                \/ page' = page /\ alerts' = alerts
                \/ /\ page' = page + 1
                   /\ r.pageNum = page + 1
                   /\ alerts' = alerts \o ListAlerts(r.category, page + 1).alerts]_vars

====
